---- MODULE Spec2Model ----
(***************************************************************************)
(* Verification model of the hackathon scorer: the Express backend         *)
(* (extractJson, geminiCall, /api/scrape-devpost, /api/score) and the      *)
(* frontend's load handler.                                                *)
(*                                                                         *)
(* Conventions of the model                                                *)
(*  - A text is a sequence of tokens.  For model replies the tokens are    *)
(*    TICKS (three backticks), the label "json" in two letter cases, the   *)
(*    braces, a whitespace character, a prose character, and body tokens   *)
(*    standing for the members of a JSON object.                           *)
(*  - A JavaScript value is a record [t, v]: t is the type tag, v the      *)
(*    number it carries (for "num" and numeric "str").                     *)
(*  - Weights and totals are counted in tenths, so weight 0.6 is 6 and     *)
(*    total 68 is 680.  All numbers of the model are finite.               *)
(*  - The template expressions text[:15000] and desc[:12000] of the        *)
(*    backend only shape the prompt text, which no modelled decision       *)
(*    reads; the prompt is not part of the state.                          *)
(***************************************************************************)
EXTENDS Integers, Sequences, FiniteSets, TLC

\* ------------------------------------------------------------------ bounds
MaxLen == 5          \* longest raw text handed to extractJson
MaxAnchors == 3      \* most anchors on a gallery page
MaxProjects == 3     \* most entries of projects[] in a /api/score request
MaxItems == 2        \* most items in a scoring payload
MaxBodyLen == 3      \* longest text part of a generation response

VARIABLES
  \* extractJson(text)
  text, jsonText, dpc,
  \* GET /api/scrape-devpost
  qurl, anchors, scrapeStatus, scrapeBody, hpc,
  \* geminiCall({model, prompt, apiKey})
  envKey, g,
  \* POST /api/score
  req, i, results, page, spc, status, body, inflight, log,
  \* total computation of /api/score on one payload
  payload, rubric, total, tpc,
  \* frontend: state, toggle, load handler
  state, autoRerun, fpc, sent, server

decVars == <<text, jsonText, dpc>>
harvVars == <<qurl, anchors, scrapeStatus, scrapeBody, hpc>>
genVars == <<envKey, g>>
scoreVars == <<req, i, results, page, spc, status, body, inflight, log>>
totVars == <<payload, rubric, total, tpc>>
frontVars == <<state, autoRerun, fpc, sent, server>>
vars == <<decVars, harvVars, genVars, scoreVars, totVars, frontVars>>

\* ------------------------------------------------------------ text helpers
\* the fence marker (three backticks) as one token
TICKS == "<fence>"
WS == " "

\* String.prototype.toLowerCase on the tokens that have letter case
Lower(tok) ==
  CASE tok = "JSON" -> "json"
    [] tok = "Project" -> "project"
    [] tok = "SOFTWARE" -> "software"
    [] OTHER -> tok

\* all sequences over S of length at most n
SeqsUpTo(S, n) == UNION {[1..k -> S] : k \in 0..n}

Min(S) == CHOOSE x \in S : \A y \in S : x <= y
Max(S) == CHOOSE x \in S : \A y \in S : x >= y

\* String.prototype.trim
RECURSIVE TrimLeft(_)
TrimLeft(s) == IF s # <<>> /\ Head(s) = WS THEN TrimLeft(Tail(s)) ELSE s
RECURSIVE TrimRight(_)
TrimRight(s) ==
  IF s # <<>> /\ s[Len(s)] = WS THEN TrimRight(SubSeq(s, 1, Len(s) - 1)) ELSE s
Trim(s) == TrimRight(TrimLeft(s))

\* ------------------------------------------------------------- extractJson
\* text.indexOf(tok) and text.lastIndexOf(tok), 1-based, 0 for "not found" (-1)
IndexOf(t, tok) ==
  IF \E k \in 1..Len(t) : t[k] = tok THEN Min({k \in 1..Len(t) : t[k] = tok}) ELSE 0
LastIndexOf(t, tok) ==
  IF \E k \in 1..Len(t) : t[k] = tok THEN Max({k \in 1..Len(t) : t[k] = tok}) ELSE 0

\* text.slice(a, b+1) for in-range positions: empty when b < a
Slice(t, a, b) == SubSeq(t, a, b)

\* where the greedy \s* of the fence pattern stops when it starts at position p
RECURSIVE SkipWs(_, _)
SkipWs(t, p) == IF p <= Len(t) /\ t[p] = WS THEN SkipWs(t, p + 1) ELSE p

\* positions where the opening fence and its label json (any case) match
FenceOpens(t) == {p \in 1..(Len(t) - 1) : t[p] = TICKS /\ Lower(t[p + 1]) = "json"}

\* closing fences reachable by the lazy group that starts at position q
Closers(t, q) == {k \in q..Len(t) : t[k] = TICKS}

\* text.match of the fence pattern (fence, json, \s*, lazy group 1, fence),
\* flag i: the leftmost opening that has a
\* closing fence; group 1 runs from the end of the whitespace to the first
\* closing fence.  <<FALSE, <<>>>> stands for a null match.
FenceMatch(t) ==
  LET ok == {p \in FenceOpens(t) : Closers(t, SkipWs(t, p + 2)) # {}}
  IN IF ok = {} THEN <<FALSE, <<>>>>
     ELSE LET p == Min(ok)
              q == SkipWs(t, p + 2)
          IN <<TRUE, SubSeq(t, q, Min(Closers(t, q)) - 1)>>

\* a variant that ends the brace slice at the first "}"
extractJsonFirstClose(t) ==
  LET m == FenceMatch(t)
      a == IndexOf(t, "{")
      b == IndexOf(t, "}")
  IN IF m[1] THEN m[2]
     ELSE IF a # 0 /\ b # 0 THEN Slice(t, a, b)
     ELSE t

extractJson(t) ==
  LET m == FenceMatch(t)
      a == IndexOf(t, "{")
      b == LastIndexOf(t, "}")
  IN IF m[1] THEN m[2]
     ELSE IF a # 0 /\ b # 0 THEN Slice(t, a, b)
     ELSE t

\* ------------------------------------------------- idle values of the parts
IdleDec == text = <<>> /\ jsonText = <<>> /\ dpc = "idle"
IdleHarv == qurl = <<>> /\ anchors = <<>> /\ scrapeStatus = 0 /\ scrapeBody = <<>> /\ hpc = "idle"
IdleGen == envKey = "" /\ g = <<>>
IdleScore ==
  /\ req = <<>> /\ i = 0 /\ results = <<>>
  /\ page = "" /\ spc = "idle" /\ status = 0 /\ body = <<>>
  /\ inflight = {} /\ log = <<>>
IdleTot == payload = <<>> /\ rubric = <<>> /\ total = <<>> /\ tpc = "idle"
IdleFront ==
  /\ state = <<>> /\ autoRerun = FALSE /\ fpc = "idle" /\ sent = <<>> /\ server = <<>>

\* ===================================================== extractJson (decoder)
DecAlphabet == {TICKS, "json", "JSON", "{", "}", WS, "x"}

InitDec ==
  /\ text \in SeqsUpTo(DecAlphabet, MaxLen)
  /\ jsonText = <<>>
  /\ dpc = "call"
  /\ IdleHarv /\ IdleGen /\ IdleScore /\ IdleTot /\ IdleFront

\* const jsonText = extractJson(raw)
ExtractJson ==
  /\ dpc = "call"
  /\ jsonText' = extractJson(text)
  /\ dpc' = "ret"
  /\ UNCHANGED <<text, harvVars, genVars, scoreVars, totVars, frontVars>>

NextDec == ExtractJson
SpecDec == InitDec /\ [][NextDec]_vars

\* the text holds a closed fence labelled json: an opening fence directly
\* followed by the label, and a later fence
HasJsonFence(t) ==
  \E p \in 1..Len(t), k \in 1..Len(t) :
    /\ p + 1 <= Len(t) /\ t[p] = TICKS /\ t[p + 1] \in {"json", "JSON"}
    /\ k >= p + 2 /\ t[k] = TICKS
HasOpenBrace(t) == \E k \in 1..Len(t) : t[k] = "{"
HasCloseBrace(t) == \E k \in 1..Len(t) : t[k] = "}"
FirstOpen(t) == CHOOSE k \in 1..Len(t) : t[k] = "{" /\ \A j \in 1..(k - 1) : t[j] # "{"
LastClose(t) == CHOOSE k \in 1..Len(t) : t[k] = "}" /\ \A j \in (k + 1)..Len(t) : t[j] # "}"

\* s is t[a..b] for some a, b (the empty text included)
IsSubstring(s, t) ==
  \/ s = <<>>
  \/ \E a \in 1..Len(t), b \in 1..Len(t) : a <= b /\ s = SubSeq(t, a, b)

\* s is the interior of the first closed json fence of t: it starts right
\* after the label and the whitespace that follows it, and runs up to the
\* next fence, so it holds no fence itself
IsFenceInterior(s, t) ==
  \E p \in 1..Len(t), k \in 1..Len(t) :
    /\ p + 1 <= Len(t) /\ t[p] = TICKS /\ t[p + 1] \in {"json", "JSON"}
    /\ \A p2 \in 1..(p - 1) :
         ~(t[p2] = TICKS /\ t[p2 + 1] \in {"json", "JSON"})
    /\ k >= p + 2 /\ t[k] = TICKS
    /\ \E q \in (p + 2)..k :
         /\ \A j \in (p + 2)..(q - 1) : t[j] = WS
         /\ (q < k => t[q] # WS)
         /\ \A j \in q..(k - 1) : t[j] # TICKS
         /\ s = SubSeq(t, q, k - 1)

\* C5 (as stated): extractJson selects by strict precedence (1) the interior
\* of a json-labelled fenced block, (2) otherwise, when the text contains
\* braces, the substring that starts at the first "{" and ends at the last
\* "}" inclusive, (3) otherwise the raw text; the selection is a contiguous
\* substring of the input.
C5_AsStated ==
  dpc = "ret" =>
    /\ IsSubstring(jsonText, text)
    /\ HasJsonFence(text) => IsFenceInterior(jsonText, text)
    /\ (~HasJsonFence(text) /\ HasOpenBrace(text) /\ HasCloseBrace(text)) =>
         /\ jsonText # <<>>
         /\ Head(jsonText) = "{" /\ jsonText[Len(jsonText)] = "}"
         /\ jsonText = SubSeq(text, FirstOpen(text), LastClose(text))
    /\ (~HasJsonFence(text) /\ ~(HasOpenBrace(text) /\ HasCloseBrace(text))) =>
         jsonText = text

\* C5 (amended): as above, except that in case (2) the selection is the slice
\* from the first "{" through the last "}", which is the empty text when the
\* last "}" stands before the first "{".
C5_Precedence ==
  dpc = "ret" =>
    /\ IsSubstring(jsonText, text)
    /\ HasJsonFence(text) => IsFenceInterior(jsonText, text)
    /\ (~HasJsonFence(text) /\ HasOpenBrace(text) /\ HasCloseBrace(text)) =>
         IF FirstOpen(text) < LastClose(text)
         THEN /\ Head(jsonText) = "{" /\ jsonText[Len(jsonText)] = "}"
              /\ Len(jsonText) = LastClose(text) - FirstOpen(text) + 1
              /\ \A k \in 1..Len(jsonText) : jsonText[k] = text[FirstOpen(text) + k - 1]
         ELSE jsonText = <<>>
    /\ (~HasJsonFence(text) /\ ~(HasOpenBrace(text) /\ HasCloseBrace(text))) =>
         jsonText = text

\* a fenced reply with prose around it and braces outside the fence has been
\* decoded to the fence interior
C5_Witness ==
  /\ dpc = "ret"
  /\ text = <<"{", TICKS, "JSON", "x", TICKS>>
  /\ jsonText = <<"x">>

\* ================================================= GET /api/scrape-devpost
\* A URL or href is a sequence of tokens: an origin, "/" and path segments.
ORIGIN == "https://devpost.test"
\* a scheme-and-host prefix the URL constructor rejects
BADORIGIN == "http://["
GalleryUrl == <<ORIGIN, "/", "hackathon", "/", "gallery">>

Hrefs ==
  { <<"/", "project", "/", "42">>,
    <<"/", "Project", "/", "42">>,
    <<"/", "about">>,
    <<"/", "project">>,
    <<ORIGIN, "/", "project", "/", "42">>,
    <<BADORIGIN, "/", "software", "/", "7">> }
Texts == { <<"F", "o", "o">>, <<WS, "a", "b", WS>>, <<"B", "a", "r", WS>> }
Anchors == [href : Hrefs, text : Texts]
Pages == SeqsUpTo(Anchors, MaxAnchors)

\* the directory of a URL: everything up to and including its last "/"
DirOf(u) == SubSeq(u, 1, LastIndexOf(u, "/"))

\* absoluteUrl(href, base): new URL(href, base).toString(), or href when the
\* constructor throws
absoluteUrl(href, base) ==
  IF href = <<>> THEN base
  ELSE IF Head(href) = BADORIGIN THEN href
  ELSE IF Head(href) = ORIGIN THEN href
  ELSE IF Head(href) = "/" THEN <<ORIGIN>> \o href
  ELSE DirOf(base) \o href

\* /\/(project|software)\//i.test(href)
PathPatternTest(href) ==
  \E p \in 1..(Len(href) - 2) :
    /\ href[p] = "/"
    /\ Lower(href[p + 1]) \in {"project", "software"}
    /\ href[p + 2] = "/"

\* u.includes("/" + seg + "/")
Includes(u, seg) ==
  \E p \in 1..(Len(u) - 2) : u[p] = "/" /\ u[p + 1] = seg /\ u[p + 2] = "/"

\* the body of the $("a").each callback for one anchor: the projects it pushes
ScanAnchor(a, base) ==
  LET href == a.href
      name == Trim(a.text)
      urlAbs == absoluteUrl(href, base)
  IN IF PathPatternTest(href) /\ Len(name) > 2
     THEN IF Includes(urlAbs, "project") \/ Includes(urlAbs, "software")
          THEN <<[name |-> name, url |-> urlAbs]>>
          ELSE <<>>
     ELSE <<>>

RECURSIVE ScanAnchors(_, _)
ScanAnchors(as, base) ==
  IF as = <<>> THEN <<>> ELSE ScanAnchor(Head(as), base) \o ScanAnchors(Tail(as), base)

\* a Map as the sequence of its entries in insertion order
MapHas(m, k) == \E n \in 1..Len(m) : m[n].key = k
MapSet(m, k, v) ==
  IF MapHas(m, k)
  THEN [n \in 1..Len(m) |-> IF m[n].key = k THEN [key |-> k, value |-> v] ELSE m[n]]
  ELSE Append(m, [key |-> k, value |-> v])
MapValues(m) == [n \in 1..Len(m) |-> m[n].value]

\* a last-wins variant of the dedup step
DedupStepOverwrite(m, p) == MapSet(m, p.url, p)

\* if(!map.has(p.url)) map.set(p.url, p)
DedupStep(m, p) == IF ~MapHas(m, p.url) THEN MapSet(m, p.url, p) ELSE m

RECURSIVE DedupLoop(_, _)
DedupLoop(ps, m) ==
  IF ps = <<>> THEN m ELSE DedupLoop(Tail(ps), DedupStep(m, Head(ps)))

Dedup(ps) == MapValues(DedupLoop(ps, <<>>))

InitHarv ==
  /\ qurl = <<>> /\ anchors = <<>> /\ scrapeStatus = 0 /\ scrapeBody = <<>>
  /\ hpc = "recv"
  /\ IdleDec /\ IdleGen /\ IdleScore /\ IdleTot /\ IdleFront

\* the request arrives: 400 without ?url, otherwise the gallery page is fetched
ScrapeReceive ==
  /\ hpc = "recv"
  /\ \E u \in {<<>>, GalleryUrl} :
       /\ qurl' = u
       /\ IF u = <<>>
          THEN scrapeStatus' = 400 /\ hpc' = "done"
          ELSE scrapeStatus' = 0 /\ hpc' = "fetching"
  /\ UNCHANGED <<anchors, scrapeBody, decVars, genVars, scoreVars, totVars, frontVars>>

\* fetch rejects or the page status is not ok: 500
ScrapeFetchFail ==
  /\ hpc = "fetching"
  /\ scrapeStatus' = 500 /\ hpc' = "done"
  /\ UNCHANGED <<qurl, anchors, scrapeBody, decVars, genVars, scoreVars, totVars, frontVars>>

\* the page arrives: scan the anchors, dedup by URL, answer 200
ScrapeRespond ==
  /\ hpc = "fetching"
  /\ \E html \in Pages :
       /\ anchors' = html
       /\ scrapeBody' = Dedup(ScanAnchors(html, qurl))
  /\ scrapeStatus' = 200 /\ hpc' = "done"
  /\ UNCHANGED <<qurl, decVars, genVars, scoreVars, totVars, frontVars>>

NextHarv == ScrapeReceive \/ ScrapeFetchFail \/ ScrapeRespond
SpecHarv == InitHarv /\ [][NextHarv]_vars

\* the two conditions the harvester is documented to apply to an anchor
MeetsBoth(a) ==
  /\ \E p \in 1..Len(a.href) :
       /\ p + 2 <= Len(a.href)
       /\ a.href[p] = "/" /\ a.href[p + 2] = "/"
       /\ a.href[p + 1] \in {"project", "Project", "software", "SOFTWARE"}
  /\ Len(Trim(a.text)) > 2

\* C6 (as stated): an anchor is accepted exactly when its href matches
\* /project/ or /software/ in any letter case and its trimmed text is longer
\* than 2 characters: the URL of every such anchor is in the returned list,
\* and every returned entry comes from such an anchor.
C6_AcceptExactly ==
  (hpc = "done" /\ scrapeStatus = 200) =>
    /\ \A k \in 1..Len(anchors) :
         MeetsBoth(anchors[k]) =>
           \E n \in 1..Len(scrapeBody) :
             scrapeBody[n].url = absoluteUrl(anchors[k].href, qurl)
    /\ \A n \in 1..Len(scrapeBody) :
         \E k \in 1..Len(anchors) :
           /\ MeetsBoth(anchors[k])
           /\ scrapeBody[n].url = absoluteUrl(anchors[k].href, qurl)
           /\ scrapeBody[n].name = Trim(anchors[k].text)

\* the projects array before deduplication, anchor by anchor
Pushed == ScanAnchors(anchors, qurl)
\* positions of Pushed that carry the first occurrence of their URL
FirstOccurrences ==
  {k \in 1..Len(Pushed) : \A j \in 1..(k - 1) : Pushed[j].url # Pushed[k].url}

\* C7: the returned list has no two entries with the same URL; each entry is
\* the first accepted anchor with its URL (name included), and the entries
\* stand in the order of first appearance of their URLs.
C7_DedupFirstWins ==
  (hpc = "done" /\ scrapeStatus = 200) =>
    /\ \A m, n \in 1..Len(scrapeBody) :
         scrapeBody[m].url = scrapeBody[n].url => m = n
    /\ Len(scrapeBody) = Cardinality(FirstOccurrences)
    /\ \A k \in FirstOccurrences :
         scrapeBody[Cardinality({j \in FirstOccurrences : j < k}) + 1] = Pushed[k]

\* a page with a repeated URL under two names, and another URL in between,
\* has been harvested
C7_Witness ==
  /\ hpc = "done" /\ scrapeStatus = 200
  /\ Len(Pushed) = 3
  /\ Pushed[1].url = Pushed[3].url
  /\ Pushed[1].name # Pushed[3].name
  /\ Pushed[2].url # Pushed[1].url
  /\ Len(scrapeBody) = 2

\* ===================================================== JavaScript values
Num(n) == [t |-> "num", v |-> n]
\* a string that Number() reads as the number n
NumStr(n) == [t |-> "numstr", v |-> n]
\* a string that Number() reads as NaN
TextVal == [t |-> "text", v |-> 0]
Undef == [t |-> "undef", v |-> 0]
NullVal == [t |-> "null", v |-> 0]

\* Number(x) || 0
NumberOr0(x) == IF x.t \in {"num", "numstr"} THEN x.v ELSE 0

\* an element of payload.items: an object with weight and score, or null
Item(w, sc) == [isNull |-> FALSE, weight |-> w, score |-> sc]
NullItem == [isNull |-> TRUE, weight |-> Undef, score |-> Undef]

\* the value JSON.parse returns: an object with items and total, null, or a
\* primitive (whose .items and .total are undefined)
Doc(isArr, its, tot) ==
  [kind |-> "object", itemsIsArray |-> isArr, items |-> its, total |-> tot]
NullDoc == [kind |-> "null", itemsIsArray |-> FALSE, items |-> <<>>, total |-> Undef]
PrimDoc == [kind |-> "prim", itemsIsArray |-> FALSE, items |-> <<>>, total |-> Undef]

\* an Error as (name, message); String(err.message || err)
Err(nm, msg) == [name |-> nm, message |-> msg]
ErrTextMessageOnly(e) == e.message
ErrText(e) == IF e.message # "" THEN e.message ELSE e.name

\* ================================================== scoring of one payload
\* Array.isArray(payload.items) ? payload.items : []
ItemsOf(doc) == IF doc.itemsIsArray THEN doc.items ELSE <<>>
\* typeof payload.total === "number" ? payload.total : 0
TotalField(doc) == IF doc.total.t = "num" THEN doc.total.v ELSE 0

\* items.reduce((s,it)=> s + (Number(it.weight)||0)*(Number(it.score)||0), 0)
\* on items that are all objects
RECURSIVE Reduce(_, _)
Reduce(its, s) ==
  IF its = <<>> THEN s
  ELSE Reduce(Tail(its), s + NumberOr0(Head(its).weight) * NumberOr0(Head(its).score))

Thrown(e) == [threw |-> TRUE, err |-> e, items |-> <<>>, total |-> 0]
Scored(its, tot) == [threw |-> FALSE, err |-> Err("", ""), items |-> its, total |-> tot]

\* a variant that trusts payload.total even when it is falsy
ScorePayloadTrusting(doc) ==
  IF doc.kind = "null" THEN Thrown(Err("TypeError", "Cannot read properties of null"))
  ELSE Scored(ItemsOf(doc), TotalField(doc))

\* lines 176-180 of the handler on the parsed payload: items, total, and the
\* recomputation when total is falsy; reading .items of null and reading
\* .weight of a null item throw a TypeError
ScorePayload(doc) ==
  IF doc.kind = "null" THEN Thrown(Err("TypeError", "Cannot read properties of null"))
  ELSE LET its == ItemsOf(doc)
           tot == TotalField(doc)
       IN IF tot # 0 THEN Scored(its, tot)
          ELSE IF \E k \in 1..Len(its) : its[k].isNull
               THEN Thrown(Err("TypeError", "Cannot read properties of null"))
               ELSE Scored(its, Reduce(its, 0))

Weights == {Num(6), Num(4), NumStr(6), Undef, TextVal}
Scores == {Num(80), Num(50), Num(0), TextVal}
Items == {Item(w, sc) : w \in Weights, sc \in Scores} \cup {NullItem}
Totals == {Undef, NullVal, Num(0), Num(680), Num(500), NumStr(680)}
Payloads ==
  {Doc(TRUE, its, tot) : its \in SeqsUpTo(Items, MaxItems), tot \in Totals}
    \cup {Doc(FALSE, <<>>, tot) : tot \in Totals}
Criterion(nm, w) == [name |-> nm, weight |-> w]
Rubrics == { <<Criterion("Tech", 6), Criterion("Design", 4)>>, <<Criterion("Tech", 10)>> }

InitTot ==
  /\ payload \in Payloads
  /\ rubric \in Rubrics
  /\ total = <<>>
  /\ tpc = "call"
  /\ IdleDec /\ IdleHarv /\ IdleGen /\ IdleScore /\ IdleFront

\* the handler computes items and total from the parsed payload
ComputeTotal ==
  /\ tpc = "call"
  /\ total' = ScorePayload(payload)
  /\ tpc' = "ret"
  /\ UNCHANGED <<payload, rubric, decVars, harvVars, genVars, scoreVars, frontVars>>

NextTot == ComputeTotal
SpecTot == InitTot /\ [][NextTot]_vars

\* the decoded total is zero, missing or not a number
TotalIsFalsy(doc) == doc.total.t # "num" \/ doc.total.v = 0
AllObjects(its) == \A k \in 1..Len(its) : ~its[k].isNull

RECURSIVE SumTo(_, _)
\* f[1] + ... + f[n]
SumTo(f, n) == IF n = 0 THEN 0 ELSE f[n] + SumTo(f, n - 1)

\* the sum over the returned items of (rubric weight at that position) x score
RubricWeighted(its, rub) ==
  SumTo([k \in 1..Len(its) |->
           (IF k <= Len(rub) THEN rub[k].weight ELSE 0) * NumberOr0(its[k].score)],
        Len(its))
\* the sum over the returned items of (the item's own weight) x score
ItemWeighted(its) ==
  SumTo([k \in 1..Len(its) |-> NumberOr0(its[k].weight) * NumberOr0(its[k].score)],
        Len(its))

\* C4 (as stated): when the decoded total is zero, missing or non-numeric the
\* total is the sum over the returned items of weight x score with the
\* rubric's weights for those items (0.6, 0.4 and scores 80, 50 give 68);
\* a non-zero numeric total is used unchanged.
C4_RubricWeights ==
  (tpc = "ret" /\ ~total.threw) =>
    /\ ~TotalIsFalsy(payload) => total.total = payload.total.v
    /\ (TotalIsFalsy(payload) /\ payload.itemsIsArray
          /\ Len(payload.items) = Len(rubric)) =>
         total.total = RubricWeighted(payload.items, rubric)

\* C4 (amended): when the decoded total is zero, missing or non-numeric the
\* total is the sum over the returned items of weight x score with the weight
\* each returned item carries itself (a weight or score that is not numeric
\* counts as 0), which is 68 when the items carry 0.6 and 0.4; a null item
\* makes the recomputation throw; a non-zero numeric total is used unchanged.
C4_ItemWeights ==
  tpc = "ret" =>
    /\ ~TotalIsFalsy(payload) => (~total.threw /\ total.total = payload.total.v)
    /\ TotalIsFalsy(payload) =>
         IF AllObjects(ItemsOf(payload))
         THEN ~total.threw /\ total.total = ItemWeighted(ItemsOf(payload))
         ELSE total.threw
    /\ (/\ payload.total = Undef
        /\ payload.items = <<Item(Num(6), Num(80)), Item(Num(4), Num(50))>>
        /\ payload.itemsIsArray) => total.total = 680

\* the reply without total whose items carry weights 0.6 and 0.4 and scores
\* 80 and 50 has been scored to 68
C4_Witness ==
  /\ tpc = "ret"
  /\ payload = Doc(TRUE, <<Item(Num(6), Num(80)), Item(Num(4), Num(50))>>, Undef)
  /\ total.total = 680

\* ============================================================== geminiCall
\* the response of the generation endpoint: the fetch rejects, or an HTTP
\* response arrives whose body is not JSON, or is JSON with or without a
\* first candidate text
GenReject(e) == [kind |-> "reject", ok |-> FALSE, hasText |-> FALSE, text |-> <<>>, err |-> e]
GenHttp(isOk, has, txt) ==
  [kind |-> "http", ok |-> isOk, hasText |-> has, text |-> txt, err |-> Err("", "")]
GenBadBody == [kind |-> "badbody", ok |-> TRUE, hasText |-> FALSE, text |-> <<>>,
               err |-> Err("FetchError", "invalid json response body")]
GenNone == [kind |-> "none", ok |-> FALSE, hasText |-> FALSE, text |-> <<>>, err |-> Err("", "")]

\* const key = apiKey || process.env.GEMINI_API_KEY
GeminiKey(apiKey, env) == IF apiKey # "" THEN apiKey ELSE env

GenFailed(e) == [ok |-> FALSE, text |-> <<>>, err |-> e]
GenText(txt) == [ok |-> TRUE, text |-> txt, err |-> Err("", "")]

\* a variant that returns the text as received
GeminiOutcomeRaw(resp) ==
  IF resp.kind = "reject" THEN GenFailed(resp.err)
  ELSE IF ~resp.ok THEN GenFailed(Err("Error", "Gemini error"))
  ELSE IF resp.kind = "badbody" THEN GenFailed(resp.err)
  ELSE GenText(IF resp.hasText THEN resp.text ELSE <<>>)

\* lines 48-55: what geminiCall makes of the response
GeminiOutcome(resp) ==
  IF resp.kind = "reject" THEN GenFailed(resp.err)
  ELSE IF ~resp.ok THEN GenFailed(Err("Error", "Gemini error"))
  ELSE IF resp.kind = "badbody" THEN GenFailed(resp.err)
  ELSE LET txt == Trim(IF resp.hasText THEN resp.text ELSE <<>>)
       IN IF txt = <<>> THEN GenFailed(Err("Error", "Empty Gemini response"))
          ELSE GenText(txt)

MissingKey == Err("Error", "Missing GEMINI_API_KEY (set in backend .env)")

BodyTexts == SeqsUpTo({WS, "x", "{"}, MaxBodyLen)
GenResponses ==
  { GenReject(Err("FetchError", "request failed")), GenBadBody,
    GenHttp(FALSE, FALSE, <<>>), GenHttp(TRUE, FALSE, <<>>) }
    \cup {GenHttp(TRUE, TRUE, txt) : txt \in BodyTexts}

GIdle == [pc |-> "idle", apiKey |-> "", calls |-> 0, resp |-> GenNone, out |-> GenFailed(Err("", ""))]

InitGen ==
  /\ envKey \in {"", "ENVKEY"}
  /\ g = GIdle
  /\ IdleDec /\ IdleHarv /\ IdleScore /\ IdleTot /\ IdleFront

\* geminiCall is entered: without a key it throws, with a key it sends the
\* one POST and awaits the response
GeminiInvoke ==
  /\ g.pc = "idle"
  /\ \E apiKey \in {"", "REQKEY"} :
       IF GeminiKey(apiKey, envKey) = ""
       THEN g' = [GIdle EXCEPT !.pc = "done", !.apiKey = apiKey, !.out = GenFailed(MissingKey)]
       ELSE g' = [GIdle EXCEPT !.pc = "sent", !.apiKey = apiKey, !.calls = 1]
  /\ UNCHANGED <<envKey, decVars, harvVars, scoreVars, totVars, frontVars>>

\* the response arrives and geminiCall returns or throws
GeminiReturn ==
  /\ g.pc = "sent"
  /\ \E resp \in GenResponses :
       g' = [g EXCEPT !.pc = "done", !.resp = resp, !.out = GeminiOutcome(resp)]
  /\ UNCHANGED <<envKey, decVars, harvVars, scoreVars, totVars, frontVars>>

\* the caller has the result; the client is ready for the next invocation
GeminiDone ==
  /\ g.pc = "done"
  /\ g' = GIdle
  /\ UNCHANGED <<envKey, decVars, harvVars, scoreVars, totVars, frontVars>>

NextGen == GeminiInvoke \/ GeminiReturn \/ GeminiDone
SpecGen == InitGen /\ [][NextGen]_vars

\* C9: an invocation issues exactly one outbound call when a credential is
\* supplied or configured and none otherwise; a missing credential, a
\* rejected call, a non-success status and a text that is empty after
\* trimming each end the invocation with an error after that one attempt;
\* a successful invocation returns non-empty trimmed text.
C9_OneCallNoRetry ==
  /\ g.calls <= 1
  /\ g.pc = "sent" => g.calls = 1
  /\ g.pc = "done" =>
       /\ (g.apiKey # "" \/ envKey # "") => g.calls = 1
       /\ (g.apiKey = "" /\ envKey = "") => (g.calls = 0 /\ ~g.out.ok)
       /\ (g.calls = 1 /\ (g.resp.kind # "http" \/ ~g.resp.ok)) => ~g.out.ok
       /\ (g.calls = 1 /\ (~g.resp.hasText \/ \A k \in 1..Len(g.resp.text) : g.resp.text[k] = WS))
            => ~g.out.ok
       /\ ~g.out.ok => (g.out.err.message # "" /\ g.out.text = <<>>)
       /\ g.out.ok =>
            /\ g.out.text # <<>>
            /\ Head(g.out.text) # WS /\ g.out.text[Len(g.out.text)] # WS
            /\ IsSubstring(g.out.text, g.resp.text)

\* a call made with the configured key got a reply padded with whitespace
\* and returned it trimmed
C9_Witness ==
  /\ g.pc = "done" /\ g.apiKey = "" /\ envKey # "" /\ g.calls = 1
  /\ g.resp.text = <<WS, "x", WS>>
  /\ g.out.ok /\ g.out.text = <<"x">>

\* ========================================================= POST /api/score
\* an entry of projects[]: null, or an object whose name and url may be
\* absent ("" stands for an absent or empty field)
Entry(nm, u) == [isNull |-> FALSE, name |-> nm, url |-> u]
NullEntry == [isNull |-> TRUE, name |-> "", url |-> ""]
Entries == {NullEntry, Entry("Alpha", "u1"), Entry("", "")}

Request(pIsArr, ps, rIsArr, rub) ==
  [projectsIsArray |-> pIsArr, projects |-> ps, rubricIsArray |-> rIsArr, rubric |-> rub]
Requests ==
  {Request(TRUE, ps, TRUE, rub) :
     ps \in SeqsUpTo(Entries, MaxProjects), rub \in {<<>>, <<Criterion("Tech", 10)>>}}
    \cup {Request(FALSE, <<>>, TRUE, <<Criterion("Tech", 10)>>),
          Request(TRUE, <<Entry("Alpha", "u1")>>, FALSE, <<>>)}

\* the response of a project page fetch: the fetch rejects, or a response
\* arrives; title is the trimmed text of the first h1/h2 of the page
PageReject(e) == [kind |-> "reject", ok |-> FALSE, title |-> "", err |-> e]
PageHttp(isOk, ttl) == [kind |-> "http", ok |-> isOk, title |-> ttl, err |-> Err("", "")]
PageNone == [kind |-> "none", ok |-> FALSE, title |-> "", err |-> Err("", "")]
PageResponses ==
  { PageReject(Err("FetchError", "request failed")), PageReject(Err("AbortError", "")),
    PageHttp(FALSE, ""), PageHttp(TRUE, ""), PageHttp(TRUE, "Title") }

\* the members of a JSON object as one token, and the object they denote
BodyTokens == {"B1", "B2", "B3", "B4"}
DocOf(b) ==
  CASE b = "B1" -> Doc(TRUE, <<Item(Num(6), Num(80)), Item(Num(4), Num(50))>>, Undef)
    [] b = "B2" -> Doc(TRUE, <<Item(Num(10), Num(40))>>, Num(900))
    [] b = "B3" -> Doc(TRUE, <<NullItem>>, Num(0))
    [] b = "B4" -> Doc(FALSE, <<>>, Num(680))

\* JSON.parse(jsonText): the document, or a SyntaxError
JsonParse(t) ==
  LET u == Trim(t)
  IN IF Len(u) = 3 /\ u[1] = "{" /\ u[3] = "}" /\ u[2] \in BodyTokens
     THEN [threw |-> FALSE, doc |-> DocOf(u[2])]
     ELSE IF u = <<"{", "}">> THEN [threw |-> FALSE, doc |-> Doc(FALSE, <<>>, Undef)]
     ELSE IF u = <<"null">> THEN [threw |-> FALSE, doc |-> NullDoc]
     ELSE IF u = <<"7">> THEN [threw |-> FALSE, doc |-> PrimDoc]
     ELSE [threw |-> TRUE, doc |-> NullDoc]
SyntaxErr == Err("SyntaxError", "Unexpected token in JSON")

ReplyTexts ==
  { <<"x", TICKS, "JSON", WS, "{", "B1", "}", WS, TICKS, "x">>,
    <<WS, "{", "B2", "}">>,
    <<"x", "{", "B3", "}", "x">>,
    <<"{", "B4", "}">>,
    <<"x">>,
    <<"null">>,
    <<WS>> }
ScoreGenResponses ==
  { GenReject(Err("FetchError", "request failed")), GenHttp(FALSE, FALSE, <<>>) }
    \cup {GenHttp(TRUE, TRUE, txt) : txt \in ReplyTexts}

\* a ProjectResult; error "" stands for no error field; idx is the position
\* of the project in the request (not part of the response)
Result(nm, u, its, tot, e, k) ==
  [name |-> nm, url |-> u, items |-> its, total |-> tot, error |-> e, idx |-> k]

\* p.name || "Untitled"
NameOr(p) == IF p.name # "" THEN p.name ELSE "Untitled"
\* $("h1, h2").first().text().trim() || p.name || "Untitled"
TitleOf(ttl, p) == IF ttl # "" THEN ttl ELSE NameOr(p)

\* the catch block of one project (line 183)
Placeholder(p, e, k) == Result(NameOr(p), p.url, <<>>, 0, ErrText(e), k)

\* lines 173-181 after geminiCall returned text: decode, parse, total, result
ScoreReply(txt, ttl, p, k) ==
  LET parsed == JsonParse(extractJson(txt))
  IN IF parsed.threw THEN [how |-> "parseFailed", res |-> Placeholder(p, SyntaxErr, k)]
     ELSE LET sp == ScorePayload(parsed.doc)
          IN IF sp.threw THEN [how |-> "payloadFailed", res |-> Placeholder(p, sp.err, k)]
             ELSE [how |-> "scored", res |-> Result(ttl, p.url, sp.items, sp.total, "", k)]

\* results.sort((a,b)=> b.total - a.total)
Compare(a, b) == b.total - a.total
InsertAt(sq, x, pos) == SubSeq(sq, 1, pos - 1) \o <<x>> \o SubSeq(sq, pos, Len(sq))
\* an insertion that puts x before the elements that compare equal to it
SortInsertBeforeEqual(sorted, x) ==
  InsertAt(sorted, x, 1 + Cardinality({n \in 1..Len(sorted) : Compare(sorted[n], x) < 0}))
\* the stable sort inserts x behind every element that does not sort after it
SortInsert(sorted, x) ==
  InsertAt(sorted, x, 1 + Cardinality({n \in 1..Len(sorted) : Compare(sorted[n], x) <= 0}))
RECURSIVE SortFrom(_, _)
SortFrom(rest, sorted) ==
  IF rest = <<>> THEN sorted ELSE SortFrom(Tail(rest), SortInsert(sorted, Head(rest)))
Rank(rs) == SortFrom(rs, <<>>)

\* an outbound call of the request, and its removal when the awaited response
\* has arrived
Call(what, k) == [call |-> what, proj |-> k]
SettleForgetting(fl, c) == fl
Settle(fl, c) == fl \ {c}

LogEntry == [fetchCalls |-> 0, genCalls |-> 0, how |-> "", page |-> PageNone, resp |-> GenNone]

InitScore ==
  /\ envKey \in {"", "ENVKEY"}
  /\ g = <<>>
  /\ req = <<>> /\ i = 0 /\ results = <<>> /\ page = "" /\ spc = "recv"
  /\ status = 0 /\ body = <<>> /\ inflight = {} /\ log = <<>>
  /\ IdleDec /\ IdleHarv /\ IdleTot /\ IdleFront

\* push the result of project i and go on with the next project
Record(how, r) ==
  /\ results' = Append(results, r)
  /\ log' = [log EXCEPT ![i].how = how]
  /\ i' = i + 1
  /\ spc' = "loop"

\* the request arrives: 400 unless projects and rubric are non-empty arrays
ScoreReceive ==
  /\ spc = "recv"
  /\ \E r \in Requests :
       /\ req' = r
       /\ IF ~r.projectsIsArray \/ r.projects = <<>> \/ ~r.rubricIsArray \/ r.rubric = <<>>
          THEN /\ status' = 400 /\ spc' = "done"
               /\ UNCHANGED <<i, results, log>>
          ELSE /\ status' = 0 /\ spc' = "loop"
               /\ i' = 1 /\ results' = <<>>
               /\ log' = [k \in 1..Len(r.projects) |-> LogEntry]
  /\ UNCHANGED <<page, body, inflight, envKey, g, decVars, harvVars, totVars, frontVars>>

\* the entry is null: p.url throws in the try block and p.name throws again
\* in the catch block, so the outer catch answers 500
ScoreNullEntry ==
  /\ spc = "loop" /\ i <= Len(req.projects)
  /\ req.projects[i].isNull
  /\ status' = 500 /\ spc' = "done"
  /\ UNCHANGED <<req, i, results, page, body, inflight, log, envKey, g,
                 decVars, harvVars, totVars, frontVars>>

\* fetch(p.url): without a url the fetch rejects at once, otherwise the
\* request goes out and the handler awaits it
ScoreFetch ==
  /\ spc = "loop" /\ i <= Len(req.projects)
  /\ ~req.projects[i].isNull
  /\ LET p == req.projects[i]
     IN IF p.url = ""
        THEN /\ Record("fetchFailed",
                       Placeholder(p, Err("TypeError", "Only absolute URLs are supported"), i))
             /\ UNCHANGED inflight
        ELSE /\ inflight' = inflight \cup {Call("fetch", i)}
             /\ log' = [log EXCEPT ![i].fetchCalls = @ + 1]
             /\ spc' = "fetch"
             /\ UNCHANGED <<i, results>>
  /\ UNCHANGED <<req, page, status, body, envKey, g, decVars, harvVars, totVars, frontVars>>

\* the page response arrives; on success the prompt is built and geminiCall
\* is entered, which throws without a key and otherwise sends its request
ScoreFetchReturn ==
  /\ spc = "fetch"
  /\ \E r \in PageResponses :
       LET p == req.projects[i]
           fl == Settle(inflight, Call("fetch", i))
           lg == [log EXCEPT ![i].page = r]
       IN IF r.kind = "reject"
          THEN /\ results' = Append(results, Placeholder(p, r.err, i))
               /\ log' = [lg EXCEPT ![i].how = "fetchFailed"]
               /\ i' = i + 1 /\ spc' = "loop" /\ inflight' = fl /\ page' = ""
          ELSE IF ~r.ok
          THEN /\ results' = Append(results, Placeholder(p, Err("Error", "Fetch 404"), i))
               /\ log' = [lg EXCEPT ![i].how = "fetchFailed"]
               /\ i' = i + 1 /\ spc' = "loop" /\ inflight' = fl /\ page' = ""
          ELSE IF GeminiKey("", envKey) = ""
          THEN /\ results' = Append(results, Placeholder(p, MissingKey, i))
               /\ log' = [lg EXCEPT ![i].how = "genFailed"]
               /\ i' = i + 1 /\ spc' = "loop" /\ inflight' = fl /\ page' = ""
          ELSE /\ page' = TitleOf(r.title, p)
               /\ inflight' = fl \cup {Call("gen", i)}
               /\ log' = [lg EXCEPT ![i].genCalls = @ + 1]
               /\ spc' = "gen"
               /\ UNCHANGED <<i, results>>
  /\ UNCHANGED <<req, status, body, envKey, g, decVars, harvVars, totVars, frontVars>>

\* the generation response arrives: geminiCall returns or throws, the reply
\* is decoded and scored, and the project's result is pushed
ScoreGenReturn ==
  /\ spc = "gen"
  /\ \E resp \in ScoreGenResponses :
       LET p == req.projects[i]
           out == GeminiOutcome(resp)
           sr == ScoreReply(out.text, page, p, i)
       IN /\ inflight' = Settle(inflight, Call("gen", i))
          /\ results' = Append(results, IF out.ok THEN sr.res ELSE Placeholder(p, out.err, i))
          /\ log' = [log EXCEPT ![i].resp = resp,
                                ![i].how = IF out.ok THEN sr.how ELSE "genFailed"]
          /\ i' = i + 1 /\ spc' = "loop" /\ page' = ""
  /\ UNCHANGED <<req, status, body, envKey, g, decVars, harvVars, totVars, frontVars>>

\* all projects are done: results.sort(...) in place and res.json({results})
ScoreRank ==
  /\ spc = "loop" /\ i > Len(req.projects)
  /\ results' = Rank(results)
  /\ body' = results'
  /\ status' = 200 /\ spc' = "done"
  /\ UNCHANGED <<req, i, page, inflight, log, envKey, g, decVars, harvVars, totVars, frontVars>>

NextScore ==
  \/ ScoreReceive \/ ScoreNullEntry \/ ScoreFetch
  \/ ScoreFetchReturn \/ ScoreGenReturn \/ ScoreRank
SpecScore == InitScore /\ [][NextScore]_vars

ValidRequest ==
  /\ req # <<>>
  /\ req.projectsIsArray /\ req.projects # <<>>
  /\ req.rubricIsArray /\ req.rubric # <<>>

Failures == {"fetchFailed", "genFailed", "parseFailed"}
IsPlaceholder(r) == r.total = 0 /\ r.items = <<>> /\ r.error # ""

\* what the project's own page and own reply determine, for a project whose
\* reply was scored
OwnTotal(k) ==
  ScorePayload(JsonParse(extractJson(Trim(log[k].resp.text))).doc).total

\* C1: a project whose page fetch, generation call or reply parsing fails
\* gets a placeholder (total 0, no items, non-empty error text); the failure
\* never ends the loop: every project before the cursor has its result, the
\* request is only ever aborted at a null entry, and a scored project's result
\* is determined by its own entry, page and reply alone.
C1_FailureIsolated ==
  ValidRequest =>
    /\ \A n \in 1..Len(results) :
         LET r == results[n]
             k == r.idx
         IN /\ log[k].how \in Failures => IsPlaceholder(r)
            /\ log[k].how = "scored" =>
                 /\ r.error = ""
                 /\ r.url = req.projects[k].url
                 /\ r.name = TitleOf(log[k].page.title, req.projects[k])
                 /\ r.total = OwnTotal(k)
    /\ spc \in {"loop", "fetch", "gen"} =>
         /\ Len(results) = i - 1
         /\ \A n \in 1..Len(results) : results[n].idx = n /\ log[n].how # ""
    /\ status = 500 => req.projects[i].isNull
    /\ status = 200 =>
         \A k \in 1..Len(req.projects) : \E n \in 1..Len(body) : body[n].idx = k

\* a batch whose first project failed at the page fetch, whose second failed
\* at the generation call and whose third was scored has been answered
C1_Witness ==
  /\ status = 200 /\ Len(req.projects) = 3
  /\ log[1].how = "fetchFailed" /\ log[1].fetchCalls = 1
  /\ log[2].how = "genFailed"
  /\ log[3].how = "scored"
  /\ \E n \in 1..3 : body[n].idx = 3 /\ body[n].total = 680
  /\ \E n \in 1..3 : body[n].idx = 1 /\ IsPlaceholder(body[n])

\* C2 (as stated): a request whose projects and rubric are non-empty arrays,
\* whatever the entries of projects are, is answered 200 with exactly one
\* result per entry.
C2_OneEntryPerProject ==
  (ValidRequest /\ spc = "done") =>
    /\ status = 200
    /\ Len(body) = Len(req.projects)

\* body is rs ordered by total descending, ties in the order of rs
IsStableRanking(b, rs) ==
  /\ Len(b) = Len(rs)
  /\ \A k \in 1..Len(rs) : \E n \in 1..Len(b) : b[n] = rs[k] /\ b[n].idx = k
  /\ \A n \in 1..(Len(b) - 1) :
       /\ b[n].total >= b[n + 1].total
       /\ b[n].total = b[n + 1].total => b[n].idx < b[n + 1].idx

\* C3: the returned results are the per-project results, placeholders
\* included, ordered by total descending; results with equal total keep the
\* relative order of their projects in the input.
C3_RankedStable ==
  [][(status # 200 /\ status' = 200) => IsStableRanking(body', results)]_vars

\* a request of three projects whose totals came out as 0, 680, 680 has been
\* answered with the placeholder moved behind the two tied results
C3_Witness ==
  /\ status = 200 /\ Len(body) = 3
  /\ body[1].idx = 2 /\ body[2].idx = 3 /\ body[3].idx = 1
  /\ body[1].total = 680 /\ body[2].total = 680 /\ body[3].total = 0
  /\ body[3].error # ""

\* C8: at most one outbound call of the request is outstanding, it belongs
\* to the project under the cursor, no call for a project is issued before
\* the results of all earlier projects are recorded, and each project's page
\* is fetched and the generation service called at most once.
C8_Sequential ==
  ValidRequest =>
    /\ Cardinality(inflight) <= 1
    /\ \A c \in inflight : c.proj = i /\ Len(results) = i - 1
    /\ \A k \in 1..Len(log) :
         /\ log[k].genCalls <= 1 /\ log[k].fetchCalls <= 1
         /\ (log[k].fetchCalls + log[k].genCalls > 0) =>
              \A j \in 1..(k - 1) : log[j].how # "" /\ j <= Len(results)
    /\ spc = "fetch" <=> (\E c \in inflight : c.call = "fetch")
    /\ spc = "gen" <=> (\E c \in inflight : c.call = "gen")

\* the generation call of the second project is outstanding after the first
\* project went through both of its calls
C8_Witness ==
  /\ spc = "gen" /\ i = 2
  /\ inflight = {Call("gen", 2)}
  /\ log[1].fetchCalls = 1 /\ log[1].genCalls = 1 /\ log[1].how = "scored"
  /\ Len(results) = 1

\* ========================================== frontend: loadState and onload
\* the state object of app.js; projects, rubric and results are lists of
\* opaque entries
State(u, ps, rub, rs) == [galleryUrl |-> u, projects |-> ps, rubric |-> rub, results |-> rs]

\* the item of localStorage: absent, not parsable, or a saved object whose
\* auto field is "true", "false" or "missing"
Saved(u, ps, rub, rs, a) ==
  [kind |-> "saved", galleryUrl |-> u, projects |-> ps, rubric |-> rub,
   results |-> rs, auto |-> a]
NoItem == [kind |-> "absent", galleryUrl |-> "", projects |-> <<>>, rubric |-> <<>>,
           results |-> <<>>, auto |-> "missing"]
BadItem == [NoItem EXCEPT !.kind = "corrupt"]
StoredItems ==
  {Saved(u, ps, rub, rs, a) :
     u \in {"", "gallery"}, ps \in {<<>>, <<"p1">>, <<"p1", "p3">>}, rub \in {<<>>, <<"c1">>},
     rs \in {<<>>, <<"r1">>}, a \in {"true", "false", "missing"}}
    \cup {NoItem, BadItem}

\* what the backend answers to the re-scrape and the re-score: the fetch
\* throws, or a response arrives, with or without its list
Reply(k, isOk, has, l) == [kind |-> k, ok |-> isOk, hasList |-> has, list |-> l]
NoReply == Reply("none", FALSE, FALSE, <<>>)
ScrapeReplies ==
  { Reply("throw", FALSE, FALSE, <<>>), Reply("http", FALSE, FALSE, <<>>),
    Reply("http", TRUE, FALSE, <<>>), Reply("http", TRUE, TRUE, <<>>),
    Reply("http", TRUE, TRUE, <<"p2">>), Reply("http", TRUE, TRUE, <<"p1", "p2">>) }
ScoreReplies ==
  { Reply("throw", FALSE, FALSE, <<>>), Reply("http", FALSE, FALSE, <<>>),
    Reply("http", TRUE, FALSE, <<>>), Reply("http", TRUE, TRUE, <<"r2">>) }

Sent(k, ps) == [kind |-> k, projects |-> ps]

\* a load guard that does not look at the rubric
AutoRunWithoutRubric(st, auto) == auto /\ st.galleryUrl # ""
\* autoRerun.checked && state.galleryUrl && state.rubric.length
AutoRun(st, auto) == auto /\ st.galleryUrl # "" /\ st.rubric # <<>>

\* data.projects || state.projects, data.results || state.results
ListOr(rep, old) == IF rep.hasList THEN rep.list ELSE old

\* the script has run up to the loadState() call; the checkbox holds the
\* default of the page markup
InitFront ==
  /\ state = State("", <<>>, <<>>, <<>>)
  /\ autoRerun \in BOOLEAN
  /\ fpc = "script"
  /\ sent = <<>>
  /\ server = [scrape |-> NoReply, before |-> <<>>]
  /\ IdleDec /\ IdleHarv /\ IdleGen /\ IdleScore /\ IdleTot

\* loadState(): nothing without an item or with one that does not parse;
\* otherwise the four fields and the toggle (s.auto ?? true) are restored
LoadState ==
  /\ fpc = "script"
  /\ \E s \in StoredItems :
       IF s.kind = "saved"
       THEN /\ state' = State(s.galleryUrl, s.projects, s.rubric, s.results)
            /\ autoRerun' = (s.auto # "false")
       ELSE UNCHANGED <<state, autoRerun>>
  /\ fpc' = "loaded"
  /\ UNCHANGED <<sent, server, decVars, harvVars, genVars, scoreVars, totVars>>

\* the load event: under the guard the re-scrape request is sent
OnLoad ==
  /\ fpc = "loaded"
  /\ IF AutoRun(state, autoRerun)
     THEN /\ sent' = Append(sent, Sent("scrape", <<>>))
          /\ fpc' = "scraping"
     ELSE /\ fpc' = "done"
          /\ UNCHANGED sent
  /\ UNCHANGED <<state, autoRerun, server, decVars, harvVars, genVars, scoreVars, totVars>>

\* the re-scrape settles; on an ok response the projects are replaced; then,
\* if there are projects, the re-score request is sent
ScrapeSettled ==
  /\ fpc = "scraping"
  /\ \E rep \in ScrapeReplies :
       LET ps == IF rep.kind = "http" /\ rep.ok THEN ListOr(rep, state.projects)
                 ELSE state.projects
       IN /\ state' = [state EXCEPT !.projects = ps]
          /\ server' = [scrape |-> rep, before |-> state.projects]
          /\ IF ps # <<>>
             THEN sent' = Append(sent, Sent("score", ps)) /\ fpc' = "scoring"
             ELSE fpc' = "done" /\ UNCHANGED sent
  /\ UNCHANGED <<autoRerun, decVars, harvVars, genVars, scoreVars, totVars>>

\* the re-score settles; on an ok response the results are replaced
ScoreSettled ==
  /\ fpc = "scoring"
  /\ \E rep \in ScoreReplies :
       state' = [state EXCEPT !.results =
                   IF rep.kind = "http" /\ rep.ok THEN ListOr(rep, @) ELSE @]
  /\ fpc' = "done"
  /\ UNCHANGED <<autoRerun, sent, server, decVars, harvVars, genVars, scoreVars, totVars>>

NextFront == LoadState \/ OnLoad \/ ScrapeSettled \/ ScoreSettled
SpecFront == InitFront /\ [][NextFront]_vars

====
